---- MODULE Spec2Model ----
(***************************************************************************)
(* A model of the scheme layer of tchannel-python:                         *)
(*   - tchannel/thrift/rw.py: Function.__call__, build_handler's handle    *)
(*     and ThriftRWRequest.read_body (specification SpecThrift);           *)
(*   - tchannel/schemes/json.py: JsonArgScheme.__call__ (SpecJson);        *)
(*   - the VCR proxy service as exercised by                               *)
(*     tests/testing/vcr/test_server.py (SpecVcr).                         *)
(* Python objects are modelled as strings, records and functions; None is  *)
(* its own value, distinct from every falsy value such as ''.              *)
(***************************************************************************)
EXTENDS Integers, Sequences, FiniteSets, TLC

VARIABLES
    function,     \* thrift: the Function under test (its spec and response_cls)
    module,       \* thrift: the TChannelThriftModule (service, hostport)
    op,           \* thrift: the operation applied last
    callArgs,     \* thrift: the argument list Function.__call__ was given
    called,       \* thrift: what Function.__call__ did (a request or an error)
    outcome,      \* thrift: what the user handler did inside handle
    handled,      \* thrift: what the wrapped handler did
    readBody,     \* thrift: the body read_body was given
    readResult,   \* thrift: what read_body did
    jPc,          \* json: position of the JsonArgScheme.__call__ coroutine
    jArgs,        \* json: the arguments of the call in progress
    jSchemeCalls, \* json: number of JsonArgScheme calls made
    jTransport,   \* json: calls received by the underlying TChannel
    jLastCall,    \* json: keyword arguments of the last TChannel.call
    jReply,       \* json: what the transport answered
    jEvents,      \* json: serializer and transport events of the call, in order
    jResult,      \* json: what the coroutine returned or raised
    vPc,          \* vcr: position of the proxy's send coroutine
    cassette,     \* vcr: the cassette double
    mockServer,   \* vcr: the target server (mock_server)
    vRequest,     \* vcr: the VCRProxy.Request being served
    vForwarded,   \* vcr: the call forwarded to the target, if any
    vAnswer,      \* vcr: what the target answered the forwarded call
    vBefore,      \* vcr: the counters as they were when the request was sent
    vSent,        \* vcr: number of requests sent to the proxy
    vResult,      \* vcr: what the proxy answered the caller
    dispatcher,   \* register: the RequestDispatcher's endpoint -> entry mapping
    partial,      \* register: the decorator register returned last, if any
    regCall,      \* register: the last call of register or of its decorator
    regResult,    \* register: what that call did
    dBefore,      \* register: the dispatcher as it was before that call
    regCount,     \* register: number of such calls made
    values,       \* key-value server: the module-level dict `values`
    kvCall,       \* key-value server: the last handler call (method, key, value)
    kvResult,     \* key-value server: what that call did
    kvBefore,     \* key-value server: `values` as it was before that call
    kvLastSet,    \* key-value server: per key, the value of its latest setValue
    kvCount       \* key-value server: number of handler calls made

thriftVars == <<function, module, op, callArgs, called, outcome, handled,
                readBody, readResult>>
jsonVars == <<jPc, jArgs, jSchemeCalls, jTransport, jLastCall, jReply,
              jEvents, jResult>>
vcrVars == <<vPc, cassette, mockServer, vRequest, vForwarded, vAnswer, vBefore,
             vSent, vResult>>
registerVars == <<dispatcher, partial, regCall, regResult, dBefore, regCount>>
storeVars == <<values, kvCall, kvResult, kvBefore, kvLastSet, kvCount>>
vars == <<thriftVars, jsonVars, vcrVars, registerVars, storeVars>>

(***************************************************************************)
(* Bounds of the model.                                                    *)
(***************************************************************************)
\* Longest list of declared exceptions (throws clause) of a Thrift function.
MaxExcSpecs == 2
\* Number of JsonArgScheme calls made in one behaviour.
MaxJsonCalls == 2
\* Number of requests sent to the VCR proxy in one behaviour.
MaxVcrRequests == 2
\* Number of calls of register and of its decorators in one behaviour.
MaxRegistrations == 2
\* Number of getValue and setValue calls in one behaviour.
MaxKvCalls == 3

(***************************************************************************)
(* Python values.                                                          *)
(***************************************************************************)
None == "None"
\* Values a handler returns or a body carries; '' is falsy but not None.
Values == {"", "world"}
Truthy(x) == x # None /\ x # ""

\* tchannel.status
OK == 0
FAILED == 1

\* Exception instances a handler may raise, and their classes.
Raisable ==
    {"NotFoundError('hello')", "NotFoundError('bye')", "MissingKeyError('hello')",
     "InvalidError()", "RuntimeError()", "KeyboardInterrupt()"}

type(e) ==
    CASE e \in {"NotFoundError('hello')", "NotFoundError('bye')"} -> "NotFoundError"
      [] e = "MissingKeyError('hello')" -> "MissingKeyError"
      [] e = "InvalidError()" -> "InvalidError"
      [] e = "RuntimeError()" -> "RuntimeError"
      [] e = "KeyboardInterrupt()" -> "KeyboardInterrupt"

\* The classes a class derives from, itself included (its __mro__).
\* MissingKeyError is a Python subclass of the Thrift exception NotFoundError.
mro(cls) ==
    CASE cls = "NotFoundError" -> {"NotFoundError", "Exception", "BaseException"}
      [] cls = "MissingKeyError" ->
            {"MissingKeyError", "NotFoundError", "Exception", "BaseException"}
      [] cls = "InvalidError" -> {"InvalidError", "Exception", "BaseException"}
      [] cls = "RuntimeError" -> {"RuntimeError", "Exception", "BaseException"}
      [] cls = "KeyboardInterrupt" -> {"KeyboardInterrupt", "BaseException"}

isinstance(e, cls) == cls \in mro(type(e))

(***************************************************************************)
(* Thrift functions: tchannel/thrift/rw.py.                                *)
(***************************************************************************)
\* Exception classes a Thrift file declares (exception NotFoundError {...}).
DeclaredClasses == {"NotFoundError", "InvalidError"}
\* Field names of a throws clause, in declaration order.
ExcFieldNames == <<"notFound", "invalid", "other", "extra">>
MethodNames == {"getValue", "setValue"}
ServiceName == "KeyValue"

\* response_spec.exception_specs: a list of FieldSpec (name, spec.surface).
ExceptionSpecs ==
    UNION {[1..n -> DeclaredClasses] : n \in 0..MaxExcSpecs}

exc_spec(classes, i) == [name |-> ExcFieldNames[i], surface |-> classes[i]]

\* A ServiceFunction: a oneway function returns nothing and throws nothing.
Functions ==
    {f \in [name : MethodNames, oneway : BOOLEAN,
            return_spec : {None, "string"}, exception_specs : ExceptionSpecs] :
        f.oneway => (f.return_spec = None /\ f.exception_specs = <<>>)}

Modules == [service : {None, "", "keyvalue"}, hostport : {None, "localhost:12345"}]

\* Number of parameters of the function's request_cls.
Arity(f) == IF f.name = "getValue" THEN 1 ELSE 2

ArgLists == {<<>>, <<"hello">>, <<"hello", "world">>}

NoResult == [kind |-> "none"]
Raised(e) == [kind |-> "raised", exc |-> e]
Returned(v) == [kind |-> "returned", value |-> v]

\* Function.endpoint: '%s::%s' % (self.service.name, self.func.name)
endpoint(f) == <<ServiceName, "::", f.name>>

\* self.request_cls(*args, **kwargs): the generated struct's constructor.
request_cls(f, args) ==
    IF Len(args) = Arity(f) THEN Returned(args) ELSE Raised("TypeError()")

\* Function.__call__ with its two checks in the other order.
FunctionCall_ServiceFirst(f, m, args) ==
    IF ~(Truthy(m.hostport) \/ Truthy(m.service)) THEN Raised("ValueError()")
    ELSE IF f.oneway THEN Raised("OneWayNotSupportedError()")
    ELSE LET call_args == request_cls(f, args)
         IN IF call_args.kind = "raised" THEN call_args
            ELSE Returned([service |-> m.service,
                           endpoint |-> endpoint(f),
                           result_type |-> [return_spec |-> f.return_spec,
                                            exception_specs |-> f.exception_specs],
                           call_args |-> call_args.value,
                           hostport |-> m.hostport])

\* Function.__call__
FunctionCall(f, m, args) ==
    IF f.oneway THEN Raised("OneWayNotSupportedError()")
    ELSE IF ~(Truthy(m.hostport) \/ Truthy(m.service)) THEN Raised("ValueError()")
    ELSE LET call_args == request_cls(f, args)
         IN IF call_args.kind = "raised" THEN call_args
            ELSE Returned([service |-> m.service,
                           endpoint |-> endpoint(f),
                           result_type |-> [return_spec |-> f.return_spec,
                                            exception_specs |-> f.exception_specs],
                           call_args |-> call_args.value,
                           hostport |-> m.hostport])

\* The fields of the function's response union: one per declared exception,
\* and 'success' unless the function returns nothing.
ResponseFields(f) ==
    {ExcFieldNames[i] : i \in 1..Len(f.exception_specs)}
        \cup (IF f.return_spec # None THEN {"success"} ELSE {})

\* response_cls(**response_kwargs): kwargs is a function from some fields.
response_cls(f, kwargs) ==
    [n \in ResponseFields(f) |-> IF n \in DOMAIN kwargs THEN kwargs[n] ELSE None]

\* tchannel.response.response_from_mixed: a Response is kept, anything else
\* becomes the body of a new Response.
response_from_mixed(mixed) ==
    IF mixed.isResponse THEN [headers |-> mixed.headers, body |-> mixed.body]
    ELSE [headers |-> None, body |-> mixed.body]

\* What a user handler can do: return a value, None or a Response, or raise.
Mixed ==
    [isResponse : {FALSE}, headers : {None}, body : Values \cup {None}]
        \cup [isResponse : {TRUE}, headers : {None, "h"}, body : Values \cup {None}]
HandlerOutcomes ==
    [kind : {"return"}, mixed : Mixed] \cup [kind : {"raise"}, exc : Raisable]

\* The for loop of handle without its break: the else clause always runs.
FirstMatching_NoBreak(f, e) == 0

\* The for loop of handle without its break and without an else clause: the
\* last matching exc_spec wins.
FirstMatching_Last(f, e) ==
    LET hits == {i \in 1..Len(f.exception_specs) :
                    isinstance(e, exc_spec(f.exception_specs, i).surface)}
    IN IF hits = {} THEN 0 ELSE CHOOSE i \in hits : \A j \in hits : j <= i

\* The for loop of handle without its isinstance test.
FirstMatching_NoTest(f, e) == IF Len(f.exception_specs) > 0 THEN 1 ELSE 0

\* Index of the first exc_spec whose class e is an instance of (the for
\* loop of handle), 0 when the loop ends without a break.
FirstMatching(f, e) ==
    LET hits == {i \in 1..Len(f.exception_specs) :
                    isinstance(e, exc_spec(f.exception_specs, i).surface)}
    IN IF hits = {} THEN 0 ELSE CHOOSE i \in hits : \A j \in hits : i <= j

\* build_handler(function, handler).handle, handler(request) doing `o`.
handle(f, o) ==
    IF o.kind = "raise"
    THEN IF ~isinstance(o.exc, "Exception") THEN Raised(o.exc)
         ELSE LET i == FirstMatching(f, o.exc)
              IN IF i = 0 THEN Raised(o.exc)
                 ELSE Returned(
                        [status |-> FAILED, headers |-> None,
                         body |-> response_cls(f,
                            (exc_spec(f.exception_specs, i).name :> o.exc))])
    ELSE LET response == response_from_mixed(o.mixed)
         IN IF f.return_spec # None
            THEN IF response.body = None THEN Raised("AssertionError()")
                 ELSE Returned([status |-> OK, headers |-> response.headers,
                                body |-> response_cls(f, ("success" :> response.body))])
            ELSE Returned([status |-> OK, headers |-> response.headers,
                           body |-> response_cls(f, <<>>)])

\* Index of the first exception field of body that is set, 0 if none is.
FirstSet(f, body) ==
    LET set == {i \in 1..Len(f.exception_specs) :
                    body[exc_spec(f.exception_specs, i).name] # None}
    IN IF set = {} THEN 0 ELSE CHOOSE i \in set : \A j \in set : i <= j

\* read_body without its loop over the exception fields.
read_body_NoLoop(f, body) ==
    IF f.return_spec # None
    THEN IF body.success = None THEN Raised("ValueExpectedError()")
         ELSE Returned(body.success)
    ELSE Returned(None)

\* read_body looking at success before the exception fields.
read_body_SuccessFirst(f, body) ==
    LET i == FirstSet(f, body)
    IN IF f.return_spec # None /\ body.success # None THEN Returned(body.success)
       ELSE IF i # 0 THEN Raised(body[exc_spec(f.exception_specs, i).name])
       ELSE IF f.return_spec # None THEN Raised("ValueExpectedError()")
       ELSE Returned(None)

\* ThriftRWRequest.read_body for a request of function f.
read_body(f, body) ==
    LET i == FirstSet(f, body)
    IN IF i # 0 THEN Raised(body[exc_spec(f.exception_specs, i).name])
       ELSE IF f.return_spec # None
            THEN IF body.success = None THEN Raised("ValueExpectedError()")
                 ELSE Returned(body.success)
            ELSE Returned(None)

\* Bodies a client may be handed: any assignment of the union's fields.
Bodies(f) ==
    {b \in [ResponseFields(f) ->
                {None, "", "world", "NotFoundError('hello')", "InvalidError()"}] :
        \A n \in ResponseFields(f) :
            IF n = "success" THEN b[n] \in Values \cup {None}
            ELSE b[n] \notin Values}

ThriftInit ==
    /\ function \in Functions
    /\ module = [service |-> None, hostport |-> None]
    /\ op = "load"
    /\ callArgs = <<>>
    /\ called = NoResult
    /\ outcome = NoResult
    /\ handled = NoResult
    /\ readBody = <<>>
    /\ readResult = NoResult

ThriftIdle ==
    /\ function = [name |-> "getValue", oneway |-> FALSE, return_spec |-> "string",
                   exception_specs |-> <<>>]
    /\ module = [service |-> None, hostport |-> None]
    /\ op = "idle"
    /\ callArgs = <<>>
    /\ called = NoResult
    /\ outcome = NoResult
    /\ handled = NoResult
    /\ readBody = <<>>
    /\ readResult = NoResult

\* A client loads the Thrift file for some service and hostport and calls
\* the Function object with an argument list.
CallFunction ==
    \E m \in Modules, args \in ArgLists :
        /\ op' = "call"
        /\ module' = m
        /\ callArgs' = args
        /\ called' = FunctionCall(function, m, args)
        /\ outcome' = NoResult
        /\ handled' = NoResult
        /\ readBody' = <<>>
        /\ readResult' = NoResult
        /\ UNCHANGED <<function, jsonVars, vcrVars, registerVars, storeVars>>

\* The server runs the wrapped handler; the user handler does o.
Handle ==
    \E o \in HandlerOutcomes :
        /\ op' = "handle"
        /\ outcome' = o
        /\ handled' = handle(function, o)
        /\ callArgs' = <<>>
        /\ called' = NoResult
        /\ readBody' = <<>>
        /\ readResult' = NoResult
        /\ UNCHANGED <<function, module, jsonVars, vcrVars, registerVars, storeVars>>

\* The client reads the body of the response the wrapped handler returned.
ReadResponse ==
    /\ op = "handle"
    /\ handled.kind = "returned"
    /\ op' = "read_response"
    /\ readBody' = handled.value.body
    /\ readResult' = read_body(function, handled.value.body)
    /\ UNCHANGED <<function, module, callArgs, called, outcome, handled,
                   jsonVars, vcrVars, registerVars, storeVars>>

\* The client reads a body that came from anywhere.
ReadBody ==
    \E body \in Bodies(function) :
        /\ op' = "read_body"
        /\ readBody' = body
        /\ readResult' = read_body(function, body)
        /\ outcome' = NoResult
        /\ handled' = NoResult
        /\ callArgs' = <<>>
        /\ called' = NoResult
        /\ UNCHANGED <<function, module, jsonVars, vcrVars, registerVars, storeVars>>

ThriftNext == CallFunction \/ Handle \/ ReadResponse \/ ReadBody

(***************************************************************************)
(* Properties of the Thrift scheme, checked under SpecThrift.              *)
(***************************************************************************)
\* e is an instance of one of the exception classes f declares.
Declared(f, e) ==
    \E i \in 1..Len(f.exception_specs) : isinstance(e, f.exception_specs[i])

\* The wrapped handler has just run and the user handler raised.
HandlerRaised == op \in {"handle", "read_response"} /\ outcome.kind = "raise"

\* C1: when the user handler raises an instance of a declared exception
\* class, the wrapped handler does not raise: it returns a response of
\* status FAILED whose body is the response union with that exception in a
\* declared field of a class the exception is an instance of, and no other
\* field set.
C1_DeclaredExceptionBecomesFailedResponse ==
    (HandlerRaised /\ Declared(function, outcome.exc)) =>
        /\ handled.kind = "returned"
        /\ handled.value.status = 1
        /\ DOMAIN handled.value.body = ResponseFields(function)
        /\ \E i \in 1..Len(function.exception_specs) :
            /\ isinstance(outcome.exc, function.exception_specs[i])
            /\ handled.value.body[ExcFieldNames[i]] = outcome.exc
            /\ \A n \in ResponseFields(function) \ {ExcFieldNames[i]} :
                    handled.value.body[n] = None

\* C1's case: a Python subclass of the second declared exception is raised
\* and comes back as a FAILED response.
C1_Witness ==
    /\ op = "handle"
    /\ outcome.kind = "raise"
    /\ outcome.exc = "MissingKeyError('hello')"
    /\ function.exception_specs = <<"InvalidError", "NotFoundError">>
    /\ handled.kind = "returned"
    /\ handled.value.status = 1
    /\ handled.value.body["invalid"] = "MissingKeyError('hello')"

\* C2: when the user handler raises an exception that is an instance of no
\* declared exception class, the wrapped handler raises that same exception
\* and returns no response.
C2_UndeclaredExceptionIsReraised ==
    (HandlerRaised /\ ~Declared(function, outcome.exc)) =>
        /\ handled.kind = "raised"
        /\ handled.exc = outcome.exc

\* C2's case: a RuntimeError raised in a function that declares exceptions.
C2_Witness ==
    /\ op = "handle"
    /\ outcome.kind = "raise"
    /\ outcome.exc = "RuntimeError()"
    /\ Len(function.exception_specs) = 2
    /\ handled = Raised("RuntimeError()")

\* C3: read_body, given the body the wrapped handler produced, reproduces
\* the handler's outcome: a non-None value v of a non-void function is
\* returned, a void function gives None, a declared exception e is raised;
\* and in each of these cases the wrapped handler does produce a body.
C3_HandleThenReadBodyRoundTrip ==
    /\ (op = "handle" /\ outcome.kind = "return"
            /\ (function.return_spec = None \/ outcome.mixed.body # None))
          => handled.kind = "returned"
    /\ (op = "handle" /\ outcome.kind = "raise" /\ Declared(function, outcome.exc))
          => handled.kind = "returned"
    /\ op = "read_response" =>
        /\ readBody = handled.value.body
        /\ (outcome.kind = "return" /\ function.return_spec # None) =>
                (outcome.mixed.body # None /\ readResult = Returned(outcome.mixed.body))
        /\ (outcome.kind = "return" /\ function.return_spec = None) =>
                readResult = Returned(None)
        /\ outcome.kind = "raise" =>
                (Declared(function, outcome.exc) /\ readResult = Raised(outcome.exc))

\* C3's case: a declared exception raised by a handler of a non-void
\* function has gone through handle and read_body.
C3_Witness ==
    /\ op = "read_response"
    /\ function.return_spec # None
    /\ outcome.kind = "raise"
    /\ readResult = Raised("NotFoundError('bye')")

\* C4: calling a oneway Function raises OneWayNotSupportedError and builds
\* no request, whatever the arguments and the module's service and
\* hostport; calling a non-oneway Function of a module with neither a
\* service nor a hostport raises ValueError and builds no request.
C4_OnewayAndMissingServiceRejected ==
    op = "call" =>
        /\ function.oneway => called = Raised("OneWayNotSupportedError()")
        /\ (~function.oneway /\ module.service \in {None, ""}
                /\ module.hostport \in {None, ""}) =>
              called = Raised("ValueError()")

\* C4's case: a oneway function called on a module with no service and no
\* hostport.
C4_Witness ==
    /\ op = "call"
    /\ function.oneway
    /\ module = [service |-> None, hostport |-> None]
    /\ callArgs = <<"hello">>
    /\ called = Raised("OneWayNotSupportedError()")

\* The exception fields of readBody that are set, by position.
SetExceptionFields ==
    {i \in 1..Len(function.exception_specs) : readBody[ExcFieldNames[i]] # None}

\* C5: read_body raises the first exception field that is set, in
\* declaration order, whatever success holds; with none set it returns None
\* for a void function, and for a non-void function returns body.success, or
\* raises ValueExpectedError when that is None.
C5_ReadBodyCases ==
    op \in {"read_body", "read_response"} =>
        /\ SetExceptionFields # {} =>
            \E i \in SetExceptionFields :
                /\ \A j \in SetExceptionFields : i <= j
                /\ readResult = Raised(readBody[ExcFieldNames[i]])
        /\ (SetExceptionFields = {} /\ function.return_spec = None) =>
                readResult = Returned(None)
        /\ (SetExceptionFields = {} /\ function.return_spec # None) =>
                IF readBody["success"] = None
                THEN readResult = Raised("ValueExpectedError()")
                ELSE readResult = Returned(readBody["success"])

\* C5's case: a body with success and both exception fields set; the first
\* declared exception is raised.
C5_Witness ==
    /\ op = "read_body"
    /\ Len(function.exception_specs) = 2
    /\ function.return_spec # None
    /\ readBody["success"] = "world"
    /\ readBody["notFound"] = "InvalidError()"
    /\ readBody["invalid"] = "NotFoundError('hello')"
    /\ readResult = Raised("InvalidError()")

\* The fields of the response union the wrapped handler returned that are
\* set, and the positions of the exception fields among them.
SetFields == {n \in DOMAIN handled.value.body : handled.value.body[n] # None}
SetExceptions ==
    {i \in 1..Len(function.exception_specs) :
        handled.value.body[ExcFieldNames[i]] # None}

\* C13: in every response the wrapped handler returns, at most one field of
\* the union is set; the status is FAILED exactly when one exception field
\* is set, which then holds the raised exception under the first declared
\* class, in declaration order, that it is an instance of, success being
\* unset; the status is OK exactly when no exception field is set, and then
\* success is the handler's non-None value for a non-void function and is
\* absent for a void function, whatever the handler returned. A non-void
\* handler that returns None fails by assertion instead.
C13_ResponseUnionInvariant ==
    /\ (op \in {"handle", "read_response"} /\ handled.kind = "returned") =>
        /\ Cardinality(SetFields) <= 1
        /\ handled.value.status \in {0, 1}
        /\ handled.value.status = 1 <=> Cardinality(SetExceptions) = 1
        /\ handled.value.status = 0 <=> SetExceptions = {}
        /\ handled.value.status = 1 =>
            /\ outcome.kind = "raise"
            /\ SetFields \cap {"success"} = {}
            /\ \E i \in SetExceptions :
                /\ handled.value.body[ExcFieldNames[i]] = outcome.exc
                /\ isinstance(outcome.exc, function.exception_specs[i])
                /\ \A j \in 1..(i - 1) :
                        ~isinstance(outcome.exc, function.exception_specs[j])
        /\ handled.value.status = 0 =>
            /\ outcome.kind = "return"
            /\ IF function.return_spec # None
               THEN /\ handled.value.body["success"] # None
                    /\ handled.value.body["success"] = outcome.mixed.body
               ELSE /\ "success" \notin DOMAIN handled.value.body
                    /\ SetFields = {}
    /\ (op = "handle" /\ outcome.kind = "return" /\ function.return_spec # None
            /\ outcome.mixed.body = None) =>
          handled = Raised("AssertionError()")

\* C13's case: an exception matching both declared classes is stored under
\* the first one only.
C13_Witness ==
    /\ op = "handle"
    /\ function.return_spec # None
    /\ function.exception_specs = <<"NotFoundError", "NotFoundError">>
    /\ outcome.kind = "raise"
    /\ outcome.exc = "MissingKeyError('hello')"
    /\ handled.kind = "returned"
    /\ handled.value.status = 1
    /\ SetFields = {"notFound"}

(***************************************************************************)
(* The JSON arg scheme: tchannel/schemes/json.py.                          *)
(***************************************************************************)
\* tchannel.schemes.JSON
JSON == "json"

\* JsonSerializer: four conversions between objects and bytes, the
\* deserializers being the inverses of the serializers.
serialize_header(headers) == [header_bytes |-> headers]
serialize_body(body) == [body_bytes |-> body]
deserialize_header(bytes) == bytes.header_bytes
deserialize_body(bytes) == bytes.body_bytes

JsonArgs ==
    [service : {"svc-a", "svc-b"}, endpoint : {"get-all-the-crackers"},
     body : {None, "{'some': 'dict'}"}, headers : {None, "{'k': 'v'}"},
     timeout : {None, "1000"}, retry_on : {"c"}, retry_limit : {"4"},
     hostport : {None, "localhost:4040"}, shard_key : {"shard"},
     trace : {"True"}]

NoArgs ==
    [service |-> None, endpoint |-> None, body |-> None, headers |-> None,
     timeout |-> None, retry_on |-> None, retry_limit |-> None,
     hostport |-> None, shard_key |-> None, trace |-> None]

NoCall ==
    [scheme |-> None, service |-> None, arg1 |-> None, arg2 |-> None,
     arg3 |-> None, timeout |-> None, retry_on |-> None, retry_limit |-> None,
     hostport |-> None, shard_key |-> None, trace |-> None]

\* What TChannel.call may resolve to: a response carrying bytes, or an error.
TransportResponses ==
    [status : {OK, FAILED},
     headers : {serialize_header(h) : h \in {"{}", "{'r': 'h'}"}},
     body : {serialize_body(b) : b \in {"null", "{'crackers': 3}"}}]
TransportErrors == {"TimeoutError()", "NetworkError()"}

\* The keyword arguments without shard_key, which then takes its default.
call_kwargs_NoShardKey(a, headers, body) ==
    [scheme |-> JSON, service |-> a.service, arg1 |-> a.endpoint,
     arg2 |-> headers, arg3 |-> body, timeout |-> a.timeout,
     retry_on |-> a.retry_on, retry_limit |-> a.retry_limit,
     hostport |-> a.hostport, shard_key |-> None, trace |-> a.trace]

\* The keyword arguments of self._tchannel.call(...), given the arguments
\* of JsonArgScheme.__call__ and the serialized headers and body.
call_kwargs(a, headers, body) ==
    [scheme |-> JSON, service |-> a.service, arg1 |-> a.endpoint,
     arg2 |-> headers, arg3 |-> body, timeout |-> a.timeout,
     retry_on |-> a.retry_on, retry_limit |-> a.retry_limit,
     hostport |-> a.hostport, shard_key |-> a.shard_key, trace |-> a.trace]

JsonInit ==
    /\ jPc = "idle"
    /\ jArgs = NoArgs
    /\ jSchemeCalls = 0
    /\ jTransport = 0
    /\ jLastCall = NoCall
    /\ jReply = NoResult
    /\ jEvents = <<>>
    /\ jResult = NoResult

\* JsonArgScheme.__call__ up to its yield: serialize, then call the transport.
JsonCall ==
    \E a \in JsonArgs :
        /\ jPc \in {"idle", "done"}
        /\ jSchemeCalls < MaxJsonCalls
        /\ jSchemeCalls' = jSchemeCalls + 1
        /\ jArgs' = a
        /\ LET headers == serialize_header(a.headers)
               body == serialize_body(a.body)
           IN jLastCall' = call_kwargs(a, headers, body)
        /\ jTransport' = jTransport + 1
        /\ jEvents' = <<"serialize_header", "serialize_body", "call">>
        /\ jReply' = NoResult
        /\ jResult' = NoResult
        /\ jPc' = "awaiting"
        /\ UNCHANGED <<thriftVars, vcrVars, registerVars, storeVars>>

\* The transport resolves the call with a response: the coroutine resumes,
\* deserializes the response in place and returns it.
JsonReturn ==
    \E r \in TransportResponses :
        /\ jPc = "awaiting"
        /\ jReply' = Returned(r)
        /\ jResult' = Returned([r EXCEPT !.headers = deserialize_header(r.headers),
                                         !.body = deserialize_body(r.body)])
        /\ jEvents' = jEvents \o <<"deserialize_header", "deserialize_body">>
        /\ jPc' = "done"
        /\ UNCHANGED <<jArgs, jSchemeCalls, jTransport, jLastCall, thriftVars, vcrVars,
                       registerVars, storeVars>>

\* The transport fails the call: the error is thrown into the coroutine at
\* its yield, which handles nothing.
JsonRaise ==
    \E e \in TransportErrors :
        /\ jPc = "awaiting"
        /\ jReply' = Raised(e)
        /\ jResult' = Raised(e)
        /\ jPc' = "done"
        /\ UNCHANGED <<jArgs, jSchemeCalls, jTransport, jLastCall, jEvents,
                       thriftVars, vcrVars, registerVars, storeVars>>

JsonNext == JsonCall \/ JsonReturn \/ JsonRaise

(***************************************************************************)
(* Properties of the JSON arg scheme, checked under SpecJson.              *)
(***************************************************************************)
\* Position of event e in the call's events, 0 if it did not happen.
EventAt(e) ==
    IF \E i \in DOMAIN jEvents : jEvents[i] = e
    THEN CHOOSE i \in DOMAIN jEvents : jEvents[i] = e
    ELSE 0

\* C6: every JsonArgScheme call makes exactly one call on the TChannel,
\* with scheme 'json', the endpoint as arg1, the serialized headers and
\* body as arg2 and arg3 and the other parameters as given; both
\* serializations come before the transport call; a response comes back
\* with only its headers and body replaced by their deserialized forms; a
\* transport error reaches the caller and nothing is deserialized.
C6_JsonCallPassesThrough ==
    /\ jTransport = jSchemeCalls
    /\ jPc # "idle" =>
        /\ jLastCall.scheme = "json"
        /\ jLastCall.arg1 = jArgs.endpoint
        /\ jLastCall.arg2 = [header_bytes |-> jArgs.headers]
        /\ jLastCall.arg3 = [body_bytes |-> jArgs.body]
        /\ \A k \in {"service", "timeout", "retry_on", "retry_limit", "hostport",
                     "shard_key", "trace"} : jLastCall[k] = jArgs[k]
        /\ 0 < EventAt("serialize_header")
        /\ EventAt("serialize_header") < EventAt("call")
        /\ 0 < EventAt("serialize_body")
        /\ EventAt("serialize_body") < EventAt("call")
    /\ jPc = "awaiting" =>
        /\ jResult = NoResult
        /\ EventAt("deserialize_header") = 0
        /\ EventAt("deserialize_body") = 0
    /\ (jPc = "done" /\ jReply.kind = "returned") =>
        /\ jResult.kind = "returned"
        /\ jResult.value.status = jReply.value.status
        /\ [header_bytes |-> jResult.value.headers] = jReply.value.headers
        /\ [body_bytes |-> jResult.value.body] = jReply.value.body
        /\ EventAt("call") < EventAt("deserialize_header")
        /\ EventAt("call") < EventAt("deserialize_body")
    /\ (jPc = "done" /\ jReply.kind = "raised") =>
        /\ jResult = Raised(jReply.exc)
        /\ EventAt("deserialize_header") = 0
        /\ EventAt("deserialize_body") = 0

\* C6's case: the second call, with headers, a body and a hostport, has
\* returned the transport's application-error response deserialized.
C6_Witness ==
    /\ jPc = "done"
    /\ jSchemeCalls = 2
    /\ jTransport = 2
    /\ jArgs.headers # None
    /\ jArgs.body # None
    /\ jArgs.hostport # None
    /\ jReply.kind = "returned"
    /\ jResult = Returned([status |-> 1, headers |-> "{'r': 'h'}",
                           body |-> "{'crackers': 3}"])

(***************************************************************************)
(* The VCR proxy: tests/testing/vcr/test_server.py and the service it      *)
(* tests (tchannel.testing.vcr.server.VCRProxyService.send).               *)
(***************************************************************************)
\* mock_server.hostport
MockHostport == "localhost:4040"

\* VCRProxy.Request(**kwargs): knownPeers and hostPort default to [] and ''.
VCRRequest(serviceName, ep, headers, body, knownPeers, hostPort) ==
    [serviceName |-> serviceName, endpoint |-> ep, headers |-> headers,
     body |-> body, knownPeers |-> knownPeers, hostPort |-> hostPort]

\* VCRProxy.Response(code, headers, body)
VCRResponse(code, headers, body) ==
    [code |-> code, headers |-> headers, body |-> body]

\* The `call` fixture filling in both addressing fields.
call_BothFields(ep, body, headers, service, use_known_peers) ==
    VCRRequest(IF Truthy(service) THEN service ELSE "",
               ep,
               IF Truthy(headers) THEN headers ELSE "",
               body,
               <<MockHostport>>,
               MockHostport)

\* The `call` fixture's f(endpoint, body, headers, service), for one value
\* of the use_known_peers fixture: the request it hands to client.send.
call(ep, body, headers, service, use_known_peers) ==
    VCRRequest(IF Truthy(service) THEN service ELSE "",
               ep,
               IF Truthy(headers) THEN headers ELSE "",
               body,
               IF use_known_peers THEN <<MockHostport>> ELSE <<>>,
               IF use_known_peers THEN "" ELSE MockHostport)

\* The request test_no_peers builds by hand, with no addressing at all.
NoPeersRequest == VCRRequest("hello_service", "hello", "", "body", <<>>, "")

NoRequest == VCRRequest("", "", "", "", <<>>, "")

\* The cassette double: what the test configures before the call.
Cassettes ==
    [write_protected : BOOLEAN, can_replay : BOOLEAN,
     replay : {VCRResponse(0, "{key: value}", "response body"),
               VCRResponse(1, "", "replayed failure")},
     replayed : {0}, recorded : {<<>>}]

\* mock_server.expect_call('endpoint').and_write(...) or .and_raise(...)
MockServers ==
    [kind : {"and_write"}, headers : {"response headers"},
     body : {"response body", ""}, calls : {0}]
      \cup [kind : {"and_raise"}, code : {1, 5},
            description : {"great sadness"}, calls : {0}]

\* str(e) of a TChannelError, as the words it is made of.
str(e) == <<e.description>>
Contains(message, d) == \E i \in DOMAIN message : message[i] = d

VcrError(cls) == [kind |-> "raised", exc |-> [cls |-> cls]]

VcrInit ==
    /\ vPc = "idle"
    /\ cassette \in Cassettes
    /\ mockServer \in MockServers
    /\ vRequest = NoRequest
    /\ vForwarded = NoResult
    /\ vAnswer = NoResult
    /\ vBefore = [calls |-> 0, recorded |-> 0, replayed |-> 0]
    /\ vSent = 0
    /\ vResult = NoResult

\* The requests the tests send: those the `call` fixture builds, and the
\* one test_no_peers builds.
ClientRequests ==
    {call("endpoint", "body", headers, service, use_known_peers) :
        headers \in {None, "headers"}, service \in {None, "service"},
        use_known_peers \in BOOLEAN}
      \cup {NoPeersRequest}

\* A test sends a request to the proxy: client.send(vcr_request).
ClientSend ==
    \E request \in ClientRequests :
        /\ vPc \in {"idle", "done"}
        /\ vSent < MaxVcrRequests
        /\ vSent' = vSent + 1
        /\ vRequest' = request
        /\ vBefore' = [calls |-> mockServer.calls,
                       recorded |-> Len(cassette.recorded),
                       replayed |-> cassette.replayed]
        /\ vForwarded' = NoResult
        /\ vAnswer' = NoResult
        /\ vResult' = NoResult
        /\ vPc' = "sent"
        /\ UNCHANGED <<cassette, mockServer, thriftVars, jsonVars, registerVars, storeVars>>

\* The peers taken from hostPort alone, knownPeers being ignored.
Peers_HostPortOnly(request) == <<request.hostPort>>

\* The peers the proxy may forward a request to.
Peers(request) ==
    IF Truthy(request.hostPort) THEN <<request.hostPort>> ELSE request.knownPeers

\* The proxy that looks at write protection before it tries to replay.
ProxyRoute_ProtectionFirst(c, request) ==
    IF c.write_protected THEN "cannot_record"
    ELSE IF c.can_replay THEN "replay"
    ELSE IF Peers(request) = <<>> THEN "no_peers"
    ELSE "forward"

\* The proxy that does not look at write protection.
ProxyRoute_NoProtection(c, request) ==
    IF c.can_replay THEN "replay"
    ELSE IF Peers(request) = <<>> THEN "no_peers"
    ELSE "forward"

\* What the proxy does with a request, given the cassette: replay it, refuse
\* it, or forward it to the target.
ProxyRoute(c, request) ==
    IF c.can_replay THEN "replay"
    ELSE IF c.write_protected THEN "cannot_record"
    ELSE IF Peers(request) = <<>> THEN "no_peers"
    ELSE "forward"

\* The proxy's send, up to the point where it waits for the target.
ProxySend ==
    /\ vPc = "sent"
    /\ LET route == ProxyRoute(cassette, vRequest)
       IN CASE route = "replay" ->
                /\ cassette' = [cassette EXCEPT !.replayed = @ + 1]
                /\ vResult' = Returned(cassette.replay)
                /\ vPc' = "done"
                /\ UNCHANGED <<mockServer, vForwarded>>
            [] route = "cannot_record" ->
                /\ vResult' = VcrError("CannotRecordInteractionsError")
                /\ vPc' = "done"
                /\ UNCHANGED <<cassette, mockServer, vForwarded>>
            [] route = "no_peers" ->
                /\ vResult' = VcrError("NoPeersAvailableError")
                /\ vPc' = "done"
                /\ UNCHANGED <<cassette, mockServer, vForwarded>>
            [] route = "forward" ->
                /\ vForwarded' =
                      Returned([service |-> vRequest.serviceName,
                                endpoint |-> vRequest.endpoint,
                                headers |-> vRequest.headers,
                                body |-> vRequest.body,
                                peer |-> Peers(vRequest)[1]])
                /\ vPc' = "forwarded"
                /\ UNCHANGED <<cassette, mockServer, vResult>>
    /\ UNCHANGED <<vRequest, vAnswer, vBefore, vSent, thriftVars, jsonVars,
                   registerVars, storeVars>>

\* The target server receives the forwarded call and answers as the test
\* told it to.
MockServerHandle ==
    /\ vPc = "forwarded"
    /\ mockServer' = [mockServer EXCEPT !.calls = @ + 1]
    /\ vAnswer' =
        IF mockServer.kind = "and_write"
        THEN Returned([status_code |-> OK, headers |-> mockServer.headers,
                       body |-> mockServer.body])
        ELSE Raised([code |-> mockServer.code,
                     description |-> mockServer.description])
    /\ vPc' = "answered"
    /\ UNCHANGED <<cassette, vRequest, vForwarded, vBefore, vSent, vResult,
                   thriftVars, jsonVars, registerVars, storeVars>>

\* The proxy that reports every remote failure as an UnexpectedError (5).
RemoteServiceError_FixedCode(e) ==
    [cls |-> "RemoteServiceError", code |-> 5, message |-> str(e)]

\* The error the proxy raises for a TChannelError e of the target.
RemoteServiceError(e) ==
    [cls |-> "RemoteServiceError", code |-> e.code, message |-> str(e)]

\* The proxy's send resumes with the target's answer.
ProxyResume ==
    /\ vPc = "answered"
    /\ IF vAnswer.kind = "raised"
       THEN /\ vResult' = Raised(RemoteServiceError(vAnswer.exc))
            /\ UNCHANGED cassette
       ELSE LET vcr_response ==
                    VCRResponse(vAnswer.value.status_code,
                                vAnswer.value.headers, vAnswer.value.body)
            IN /\ cassette' = [cassette EXCEPT
                                 !.recorded = Append(@, <<vRequest, vcr_response>>)]
               /\ vResult' = Returned(vcr_response)
    /\ vPc' = "done"
    /\ UNCHANGED <<mockServer, vRequest, vForwarded, vAnswer, vBefore, vSent,
                   thriftVars, jsonVars, registerVars, storeVars>>

VcrNext == ClientSend \/ ProxySend \/ MockServerHandle \/ ProxyResume

(***************************************************************************)
(* Registration of Thrift handlers: register in tchannel/thrift/rw.py.     *)
(***************************************************************************)
\* The service's second function, beside the function under test.
Companion(f) ==
    [name |-> IF f.name = "getValue" THEN "setValue" ELSE "getValue",
     oneway |-> FALSE, return_spec |-> "string", exception_specs |-> <<>>]

\* Service.__init__: one Function attribute per function of the service.
ServiceFunctions(f) == {f, Companion(f)}

\* The other attributes of a Service object: its name property and the
\* fields __init__ sets.
ServiceAttributes == {"name", "_module", "_cls", "_spec"}

\* Names of the handler functions (handler.__name__) and the method arguments.
HandlerNames == {"getValue", "setValue", "name", "helper"}
MethodArgs == {None, "getValue", "setValue", "name", "missing"}

\* getattr(service, method, None) on the Service of function f.
getattr(f, method) ==
    IF \E g \in ServiceFunctions(f) : g.name = method
    THEN [kind |-> "function",
          function |-> CHOOSE g \in ServiceFunctions(f) : g.name = method]
    ELSE IF method \in ServiceAttributes THEN [kind |-> "attribute"]
    ELSE [kind |-> "none"]

\* build_handler(function, handler): the closure `handle`, named after the
\* function.
build_handler(f, handler) ==
    [name |-> f.name, function |-> f, handler |-> handler]

\* ThriftRWSerializer(service._module, cls)
ThriftRWSerializer(f, cls) == <<"ThriftRWSerializer", f.name, cls>>

\* RequestDispatcher.register(endpoint, handler, req_serializer,
\* resp_serializer): the mapping gets this entry under the endpoint.
dispatcher_register(d, ep, entry) ==
    [e \in DOMAIN d \cup {ep} |-> IF e = ep THEN entry ELSE d[e]]

\* register's decorator(method, handler) on dispatcher d and the Service of
\* f: what it returns or raises, and the dispatcher it leaves.
decorator(d, f, method, handler) ==
    LET name == IF ~Truthy(method) THEN handler ELSE method
        fn == getattr(f, name)
    IN IF fn.kind = "none" THEN [result |-> Raised("AssertionError()"), d |-> d]
       ELSE IF fn.kind = "attribute"
       THEN [result |-> Raised("AttributeError()"), d |-> d]
       ELSE IF fn.function.oneway
       THEN [result |-> Raised("AssertionError()"), d |-> d]
       ELSE LET g == fn.function
                wrapped == build_handler(g, handler)
            IN [result |-> Returned(wrapped),
                d |-> dispatcher_register(d, endpoint(g),
                        [handler |-> wrapped,
                         req_serializer |-> ThriftRWSerializer(g, "request_cls"),
                         resp_serializer |-> ThriftRWSerializer(g, "response_cls")])]

NoRegCall == [op |-> "none", handler |-> None, method |-> None]

RegisterInit ==
    /\ dispatcher = <<>>
    /\ partial = NoResult
    /\ regCall = NoRegCall
    /\ regResult = NoResult
    /\ dBefore = <<>>
    /\ regCount = 0

RegisterIdle == RegisterInit

\* register(dispatcher, service, handler, method) with a handler.
Register ==
    \E handler \in HandlerNames, method \in MethodArgs :
        /\ regCount < MaxRegistrations
        /\ regCount' = regCount + 1
        /\ regCall' = [op |-> "register", handler |-> handler, method |-> method]
        /\ dBefore' = dispatcher
        /\ LET r == decorator(dispatcher, function, method, handler)
           IN /\ regResult' = r.result
              /\ dispatcher' = r.d
        /\ UNCHANGED <<partial, thriftVars, jsonVars, vcrVars, storeVars>>

\* register(dispatcher, service, method=method) without a handler: it
\* returns partial(decorator, method).
RegisterDecorator ==
    \E method \in MethodArgs :
        /\ regCount < MaxRegistrations
        /\ regCount' = regCount + 1
        /\ regCall' = [op |-> "partial", handler |-> None, method |-> method]
        /\ dBefore' = dispatcher
        /\ partial' = Returned(method)
        /\ regResult' = Returned([name |-> "partial", function |-> function,
                                  handler |-> None])
        /\ UNCHANGED <<dispatcher, thriftVars, jsonVars, vcrVars, storeVars>>

\* The decorator register returned is applied to a handler.
ApplyDecorator ==
    \E handler \in HandlerNames :
        /\ partial.kind = "returned"
        /\ regCount < MaxRegistrations
        /\ regCount' = regCount + 1
        /\ regCall' = [op |-> "decorate", handler |-> handler,
                       method |-> partial.value]
        /\ dBefore' = dispatcher
        /\ LET r == decorator(dispatcher, function, partial.value, handler)
           IN /\ regResult' = r.result
              /\ dispatcher' = r.d
        /\ UNCHANGED <<partial, thriftVars, jsonVars, vcrVars, storeVars>>

RegisterNext == Register \/ RegisterDecorator \/ ApplyDecorator

(***************************************************************************)
(* The example key-value server: examples/benchmark/thrift/server.py.      *)
(***************************************************************************)
\* Keys and values of the requests; a value may be None.
KvKeys == {"hello", "key"}
KvValues == {None, "world", "v2"}

\* values.get(key)
dict_get(d, key) == IF key \in DOMAIN d THEN d[key] ELSE None

\* KeyValue.NotFoundError(key)
NotFoundError(key) == [cls |-> "KeyValue.NotFoundError", key |-> key]

\* getValue(request), request.body.key being key.
getValue(d, key) ==
    LET value == dict_get(d, key)
    IN IF value = None THEN Raised(NotFoundError(key)) ELSE Returned(value)

\* setValue that keeps the value a key already has (dict.setdefault).
setValue_SetDefault(d, key, value) ==
    [k \in DOMAIN d \cup {key} |-> IF k \in DOMAIN d THEN d[k] ELSE value]

\* setValue(request): values[key] = value; the dict it leaves.
setValue(d, key, value) ==
    [k \in DOMAIN d \cup {key} |-> IF k = key THEN value ELSE d[k]]

NoKvCall == [method |-> "none", key |-> None, value |-> None]

StoreInit ==
    /\ values = ("hello" :> "world")
    /\ kvCall = NoKvCall
    /\ kvResult = NoResult
    /\ kvBefore = ("hello" :> "world")
    /\ kvLastSet = ("hello" :> "world")
    /\ kvCount = 0

StoreIdle == StoreInit

\* A client's getValue call reaches the handler.
GetValue ==
    \E key \in KvKeys :
        /\ kvCount < MaxKvCalls
        /\ kvCount' = kvCount + 1
        /\ kvCall' = [method |-> "getValue", key |-> key, value |-> None]
        /\ kvBefore' = values
        /\ kvResult' = getValue(values, key)
        /\ UNCHANGED <<values, kvLastSet, thriftVars, jsonVars, vcrVars,
                       registerVars>>

\* A client's setValue call reaches the handler, which returns nothing.
SetValue ==
    \E key \in KvKeys, value \in KvValues :
        /\ kvCount < MaxKvCalls
        /\ kvCount' = kvCount + 1
        /\ kvCall' = [method |-> "setValue", key |-> key, value |-> value]
        /\ kvBefore' = values
        /\ values' = setValue(values, key, value)
        /\ kvResult' = Returned(None)
        /\ kvLastSet' = [k \in DOMAIN kvLastSet \cup {key} |->
                            IF k = key THEN value ELSE kvLastSet[k]]
        /\ UNCHANGED <<thriftVars, jsonVars, vcrVars, registerVars>>

StoreNext == GetValue \/ SetValue

(***************************************************************************)
(* Specifications: one per part of the program, the other parts at rest.   *)
(***************************************************************************)
JsonIdle == JsonInit

VcrIdle ==
    /\ vPc = "idle"
    /\ cassette = [write_protected |-> FALSE, can_replay |-> FALSE,
                   replay |-> VCRResponse(0, "", ""), replayed |-> 0,
                   recorded |-> <<>>]
    /\ mockServer = [kind |-> "and_write", headers |-> "", body |-> "", calls |-> 0]
    /\ vRequest = NoRequest
    /\ vForwarded = NoResult
    /\ vAnswer = NoResult
    /\ vBefore = [calls |-> 0, recorded |-> 0, replayed |-> 0]
    /\ vSent = 0
    /\ vResult = NoResult

InitThrift == ThriftInit /\ JsonIdle /\ VcrIdle /\ RegisterIdle /\ StoreIdle
InitJson == ThriftIdle /\ JsonInit /\ VcrIdle /\ RegisterIdle /\ StoreIdle
InitVcr == ThriftIdle /\ JsonIdle /\ VcrInit /\ RegisterIdle /\ StoreIdle
InitRegister == ThriftInit /\ JsonIdle /\ VcrIdle /\ RegisterInit /\ StoreIdle
InitStore == ThriftIdle /\ JsonIdle /\ VcrIdle /\ RegisterIdle /\ StoreInit

SpecThrift == InitThrift /\ [][ThriftNext]_vars
SpecJson == InitJson /\ [][JsonNext]_vars
SpecVcr == InitVcr /\ [][VcrNext]_vars
SpecRegister == InitRegister /\ [][RegisterNext]_vars
SpecStore == InitStore /\ [][StoreNext]_vars

(***************************************************************************)
(* Properties of the VCR proxy, checked under SpecVcr.                     *)
(***************************************************************************)
\* The request being served names its target by hostPort or by knownPeers.
Addressed == vRequest.hostPort # "" \/ vRequest.knownPeers # <<>>

\* The last (request, response) pair recorded on the cassette.
LastRecorded == cassette.recorded[Len(cassette.recorded)]

C8_ReplayPath ==
    cassette.can_replay =>
        /\ vPc \notin {"forwarded", "answered"}
        /\ vForwarded = NoResult
        /\ mockServer.calls = 0
        /\ cassette.recorded = <<>>
        /\ vPc = "sent" => cassette.replayed = vBefore.replayed
        /\ vPc = "done" =>
            /\ vResult = Returned(cassette.replay)
            /\ cassette.replayed = vBefore.replayed + 1

\* C8's case: a write-protected cassette has replayed an application error
\* for a request addressed by hostPort.
C8_Witness ==
    /\ vPc = "done"
    /\ cassette.can_replay
    /\ cassette.write_protected
    /\ vRequest.hostPort = MockHostport
    /\ cassette.replayed = 1
    /\ vResult = Returned(VCRResponse(1, "", "replayed failure"))

\* C9: when the cassette cannot replay and the target fails the forwarded
\* call with a protocol error of code c and description d, the proxy fails
\* the caller with RemoteServiceError of code c whose message contains d,
\* and nothing is recorded for the request.
C9_RemoteFailure ==
    (~cassette.can_replay /\ vAnswer.kind = "raised") =>
        /\ Len(cassette.recorded) = vBefore.recorded
        /\ vPc = "done" =>
            /\ vResult.kind = "raised"
            /\ vResult.exc.cls = "RemoteServiceError"
            /\ vResult.exc.code = mockServer.code
            /\ Contains(vResult.exc.message, mockServer.description)

\* C9's case: the target failed with code 1 and the caller got
\* RemoteServiceError.
C9_Witness ==
    /\ vPc = "done"
    /\ vAnswer.kind = "raised"
    /\ mockServer.kind = "and_raise"
    /\ mockServer.code = 1
    /\ vResult.kind = "raised"
    /\ vResult.exc.cls = "RemoteServiceError"

\* C10: a request the cassette cannot replay, to a write-protected cassette,
\* addressed by hostPort or by knownPeers, fails with
\* CannotRecordInteractionsError; it is not forwarded and nothing is
\* recorded.
C10_WriteProtected ==
    (~cassette.can_replay /\ cassette.write_protected /\ Addressed) =>
        /\ vPc \notin {"forwarded", "answered"}
        /\ cassette.recorded = <<>>
        /\ mockServer.calls = 0
        /\ vPc = "done" => vResult = VcrError("CannotRecordInteractionsError")

\* C10's case: a request addressed by knownPeers was refused.
C10_Witness ==
    /\ vPc = "done"
    /\ ~cassette.can_replay
    /\ cassette.write_protected
    /\ vRequest.knownPeers = <<MockHostport>>
    /\ vResult = VcrError("CannotRecordInteractionsError")

Registering == regCall.op \in {"register", "decorate"}

\* The method that call was about: the one given, else the handler's name.
RegMethod ==
    IF regCall.method \in {None, ""} THEN regCall.handler ELSE regCall.method

\* The service defines RegMethod as a Thrift function.
RegDefined == \E g \in ServiceFunctions(function) : g.name = RegMethod
RegFunction == CHOOSE g \in ServiceFunctions(function) : g.name = RegMethod

\* The dispatcher is dBefore with one entry set, under
\* '<Service name>::<method>', holding the wrapped handler and the
\* serializers of the function's request and response classes.
OneEntryRegistered ==
    LET ep == <<"KeyValue", "::", RegMethod>>
    IN /\ DOMAIN dispatcher = DOMAIN dBefore \cup {ep}
       /\ \A e \in DOMAIN dBefore \ {ep} : dispatcher[e] = dBefore[e]
       /\ dispatcher[ep].handler =
            [name |-> RegMethod, function |-> RegFunction,
             handler |-> regCall.handler]
       /\ dispatcher[ep].req_serializer =
            <<"ThriftRWSerializer", RegMethod, "request_cls">>
       /\ dispatcher[ep].resp_serializer =
            <<"ThriftRWSerializer", RegMethod, "response_cls">>
       /\ regResult = Returned(dispatcher[ep].handler)

\* C12: a registration of a method the service defines and that is not
\* oneway sets exactly one dispatcher entry, keyed '<Service>::<method>',
\* the method defaulting to the handler's name; when the service does not
\* define the method, or the method is oneway, registration fails by
\* assertion and the dispatcher is left as it was; register without a
\* handler registers nothing.
C12_RegisterAsStated ==
    /\ (Registering /\ RegDefined /\ ~RegFunction.oneway) => OneEntryRegistered
    /\ (Registering /\ ~(RegDefined /\ ~RegFunction.oneway)) =>
            (regResult = Raised("AssertionError()") /\ dispatcher = dBefore)
    /\ regCall.op = "partial" => dispatcher = dBefore

\* The part of C12 that holds of register: as C12, except that a method
\* name that is another attribute of the Service object (name, _module,
\* _cls, _spec) fails with AttributeError instead of an assertion.
C12_RegistrationEffect ==
    /\ (Registering /\ RegDefined /\ ~RegFunction.oneway) => OneEntryRegistered
    /\ (Registering /\ ~(RegDefined /\ ~RegFunction.oneway)) =>
            /\ dispatcher = dBefore
            /\ regResult =
                IF ~RegDefined /\ RegMethod \in {"name", "_module", "_cls", "_spec"}
                THEN Raised("AttributeError()")
                ELSE Raised("AssertionError()")
    /\ regCall.op = "partial" => dispatcher = dBefore

(***************************************************************************)
(* Properties of the example key-value server, checked under SpecStore.    *)
(***************************************************************************)
\* The value the key of the last call was given by its latest setValue, or
\* initially; None if there is none.
LatestValue ==
    IF kvCall.key \in DOMAIN kvLastSet THEN kvLastSet[kvCall.key] ELSE None

\* C14: starting from {'hello': 'world'}, getValue(k) returns the value of
\* the latest setValue(k, v), or the initial value of k, raises
\* KeyValue.NotFoundError(k) exactly when k has no stored value other than
\* None, and leaves the store as it was; setValue(k, v) returns nothing and
\* changes the entry of k only.
C14_KeyValueStore ==
    /\ kvCall.method = "getValue" =>
        /\ values = kvBefore
        /\ IF LatestValue # None
           THEN kvResult = Returned(LatestValue)
           ELSE kvResult = Raised([cls |-> "KeyValue.NotFoundError",
                                   key |-> kvCall.key])
        /\ kvResult.kind = "raised" <=>
              (kvCall.key \notin DOMAIN values \/ values[kvCall.key] = None)
    /\ kvCall.method = "setValue" =>
        /\ kvResult = Returned(None)
        /\ DOMAIN values = DOMAIN kvBefore \cup {kvCall.key}
        /\ values[kvCall.key] = kvCall.value
        /\ \A k \in DOMAIN kvBefore \ {kvCall.key} : values[k] = kvBefore[k]

\* C14's case: the initial value of 'hello' was overwritten and getValue
\* returns the new value.
C14_Witness ==
    /\ kvCall = [method |-> "getValue", key |-> "hello", value |-> None]
    /\ kvLastSet["hello"] = "v2"
    /\ kvResult = Returned("v2")
    /\ values = kvBefore

====
